---- MODULE Spec2Model ----
(***************************************************************************)
(* Model of src/src/interactive-server.py: the session table              *)
(* SESSIONSGLOBAL, the /prepare handler (fetch of the CT, PET and          *)
(* prediction series into the 5-channel tensor), the /process handler      *)
(* (scribble -> distance map -> inference -> publish) and makeSEGDicom's   *)
(* delete-then-create protocol against the archive.                        *)
(*                                                                         *)
(* Both handlers are `async def` bodies without any await, so each request *)
(* runs to completion on the event loop: one action per request.           *)
(*                                                                         *)
(* Modelling decisions:                                                    *)
(*  - getMemoryUsage() (lines 147-159) only works where                    *)
(*    platform.system() == 'Darwin'; the model is of the server on that    *)
(*    platform, where the call only prints.                                *)
(*  - MODE_DEBUG is True (line 82), so every `if MODE_DEBUG:               *)
(*    pdb.set_trace()` stops in the debugger.  The operator either         *)
(*    continues, or quits (also what an exhausted stdin does), which       *)
(*    raises bdb.BdbQuit at the next line of the function that called      *)
(*    set_trace.  Both outcomes are inputs of the request.                 *)
(*  - The archive is an external collaborator: a delete answers 200 and    *)
(*    removes the object when it exists, answers 404 when it does not, or  *)
(*    fails (another status, a transport exception) and removes nothing;   *)
(*    a create that answers 200 stores the object under a fresh id.        *)
(*  - A fetched volume is abstracted to its edge length n (the assignment  *)
(*    ctArray[:, :, k] = pixel_array of lines 349-351 only succeeds for    *)
(*    a cubic volume) and to the series locator each channel was filled    *)
(*    from.                                                                *)
(***************************************************************************)
EXTENDS Integers, Sequences, FiniteSets, TLC

VARIABLES
    SESSIONSGLOBAL,   \* client -> (name -> entry), line 878
    DCMCLIENT,        \* "None" or "client", line 879
    archive,          \* the objects the archive holds that were created by /process
    nextOrthancId,    \* the id the archive gives to the next created object
    nextUid,          \* the value the next pydicom.uid.generate_uid() returns
    last,             \* what the last request did and answered
    input,            \* the argument a pure function is applied to (ViewSpec)
    output            \* what the function returned for it

vars == <<SESSIONSGLOBAL, DCMCLIENT, archive, nextOrthancId, nextUid, last,
          input, output>>

----------------------------------------------------------------------------
(* Bounds *)

\* /process requests that reach the counter increment, over all sessions.
MaxTurns == 3

\* Points of a scribble handed to getViewTypeAndSliceId on its own.
MaxPoints == 2

\* /process requests that reach the counter increment in PairSpec.
MaxPairTurns == 2

\* Instances of a CT series handed to the array fill of getCTArray on its own.
MaxInstances == 2

----------------------------------------------------------------------------
(* Keys and request payloads *)

Clients == {"c1"}

\* "userAgent" is a legal caseName that collides with the bookkeeping key
\* the client dictionary is created with (line 898).
CaseNames == {"p1", "userAgent"}

KEY_SCRIBBLE_FGD == "fgd"

KEY_SCRIBBLE_BGD == "bgd"

ScribbleTypes == {KEY_SCRIBBLE_FGD, KEY_SCRIBBLE_BGD, "other"}

\* Series locators of the archive and the edge length of the (cubic) volume
\* each holds: "ct2", "pt2", "seg2" have 2 instances, "ct3" has 3.
SeriesLen(loc) == IF loc = "ct3" THEN 3 ELSE 2

\* payload.data.dict() of /prepare (line 894): the descriptors a client may
\* submit for case p.  searchObjRTSGT is left out: the array read from it
\* (segArrayGT) is never stored.  One descriptor has three series of one
\* shape, one has no prediction, and one has a CT larger than its PET and
\* its prediction.
PreparePayloads(p) ==
    {[caseName |-> p, ct |-> "ct2", pet |-> "pt2", pred |-> "seg2"],
     [caseName |-> p, ct |-> "ct2", pet |-> "pt2", pred |-> ""],
     [caseName |-> p, ct |-> "ct3", pet |-> "pt2", pred |-> "seg2"]}

None == [kind |-> "None"]

EmptyDict == << >>

TorchDict == [kind |-> "dict"]

TorchList == [kind |-> "list"]

----------------------------------------------------------------------------
(* Session table *)

\* line 898: the dictionary a client gets on its first /prepare.
NewClientEntry(c) ==
    [k \in {"userAgent", "clientIdentifier"} |->
        [kind |-> "str", value |-> IF k = "userAgent" THEN "ua" ELSE c]]

\* lines 901-906: the session record of a new (client, caseName).
NewSession(uid) ==
    [kind                 |-> "session",
     data                 |-> EmptyDict,
     torchData            |-> TorchDict,
     dcmList              |-> [series |-> "", len |-> 0],
     scribbleCounter      |-> 0,
     segSOPInstanceUID    |-> uid,
     segSeriesInstanceUID |-> uid + 1,
     segOrthancID         |-> None]

HasClient(S, c) == c \in DOMAIN S

\* `patientName in SESSIONSGLOBAL[clientIdentifier]` (lines 900, 975)
HasEntry(S, c, p) == HasClient(S, c) /\ p \in DOMAIN S[c]

IsSession(S, c, p) == HasEntry(S, c, p) /\ S[c][p].kind = "session"

\* Mutant of PutEntry: the sessions of a client are one shared dictionary,
\* so a write to one is a write to all.
PutEntryShared(S, c, p, v) ==
    [cc \in DOMAIN S \cup {c} |->
        IF cc = c
        THEN [pp \in DOMAIN S[c] \cup {p} |->
                IF pp = p \/ S[c][pp].kind = "session" THEN v ELSE S[c][pp]]
        ELSE S[cc]]

\* SESSIONSGLOBAL[c][p] = v
PutEntry(S, c, p, v) ==
    [cc \in DOMAIN S \cup {c} |->
        IF cc = c
        THEN [pp \in DOMAIN S[c] \cup {p} |-> IF pp = p THEN v ELSE S[c][pp]]
        ELSE S[cc]]

\* The keys that hold a session record.
SessionKeys ==
    {k \in UNION {{<<c, p>> : p \in DOMAIN SESSIONSGLOBAL[c]} : c \in DOMAIN SESSIONSGLOBAL} :
        IsSession(SESSIONSGLOBAL, k[1], k[2])}

Sess(k) == SESSIONSGLOBAL[k[1]][k[2]]

----------------------------------------------------------------------------
(* What a request leaves behind for the properties to read *)

NoResponse == [kind |-> "None"]

\* One archive call: retrieve_series / retrieve_instance / delete / create.
Call(name, id, answer) == [call |-> name, id |-> id, answer |-> answer]

Observation(op, c, p, req, status, reused, calls, torchIn, inference, response) ==
    [op        |-> op,         \* "prepare" or "process"
     c         |-> c,
     p         |-> p,
     req       |-> req,        \* payload.data of the request
     status    |-> status,     \* "ok": a 200 answer, "fail": HTTPException(500)
     reused    |-> reused,     \* /prepare answered "Data already loaded"
     calls     |-> calls,      \* the archive calls of the request, in order
     torchIn   |-> torchIn,    \* the tensor handed to doInference
     inference |-> inference,  \* "none", "ok" or "raise"
     response  |-> response]   \* returnObj[KEY_RESPONSE_DATA] of /process

----------------------------------------------------------------------------
(* Volume Fetcher: getDCMClient, getCTArray, getPTArray, getSEGs *)

Array(loc) == [kind |-> "array", n |-> SeriesLen(loc), from |-> loc]

\* lines 354-360: torch.zeros(thisShapeTensor) with channel 0 filled.
NewTensor(loc) ==
    [kind |-> "tensor", n |-> SeriesLen(loc),
     ct |-> loc, pt |-> "zero", pred |-> "zero", fgd |-> "zero", bgd |-> "zero"]

\* patientData[KEY_TORCH_DATA][0, ch] = torch.tensor(arr) (lines 396, 460):
\* raises on a list (the tensor was never allocated) and on a shape that does
\* not broadcast; the caller's bare except swallows it.
CanAssignChannel(torchData, arr) ==
    torchData.kind = "tensor" /\ torchData.n = arr.n

\* What the archive can answer to retrieve_series: "raise" (unreachable, HTTP
\* error), "empty" (no instances), "loopfail" (instances whose pixel arrays do
\* not fit ctArray[:, :, k], or an InstanceNumber out of range), "ok".
SeriesAnswers == {"raise", "empty", "loopfail", "ok"}

InstanceAnswers == {"raise", "ok"}

\* Mutant of GetCTArray: a read that found nothing takes the descriptor
\* back, so that the next prepare fetches again.
GetCTArrayRollsBack(pd, res) ==
    IF res \in {"raise", "empty"}
    THEN [arr |-> None, pd |-> [pd EXCEPT !.data = EmptyDict]]
    ELSE IF res = "loopfail"
    THEN [arr |-> Array(pd.data.ct), pd |-> pd]
    ELSE [arr |-> Array(pd.data.ct),
          pd  |-> [pd EXCEPT !.torchData = NewTensor(pd.data.ct),
                             !.dcmList = [series |-> pd.data.ct,
                                          len |-> SeriesLen(pd.data.ct)]]]

\* lines 327-366
GetCTArray(pd, res) ==
    IF res \in {"raise", "empty"}
    THEN [arr |-> None, pd |-> pd]
    ELSE IF res = "loopfail"
    THEN [arr |-> Array(pd.data.ct), pd |-> pd]
    ELSE [arr |-> Array(pd.data.ct),
          pd  |-> [pd EXCEPT !.torchData = NewTensor(pd.data.ct),
                             !.dcmList = [series |-> pd.data.ct,
                                          len |-> SeriesLen(pd.data.ct)]]]

\* lines 368-401
GetPTArray(pd, res) ==
    IF res \in {"raise", "empty"}
    THEN [arr |-> None, pd |-> pd]
    ELSE IF res = "loopfail"
    THEN [arr |-> Array(pd.data.pet), pd |-> pd]
    ELSE [arr |-> Array(pd.data.pet),
          pd  |-> IF CanAssignChannel(pd.torchData, Array(pd.data.pet))
                  THEN [pd EXCEPT !.torchData.pt = pd.data.pet]
                  ELSE pd]

\* lines 436-465, the prediction mask (the ground-truth mask of lines 413-434
\* is read and dropped).  res = "raise" stands for every way the read ends
\* with segArrayPred = None: a 404, another HTTP error, no segment.
GetSEGs(pd, res) ==
    IF pd.data.pred = "" \/ res = "raise"
    THEN [arr |-> None, pd |-> pd]
    ELSE [arr |-> Array(pd.data.pred),
          pd  |-> IF CanAssignChannel(pd.torchData, Array(pd.data.pred))
                  THEN [pd EXCEPT !.torchData.pred = pd.data.pred]
                  ELSE pd]

\* lines 920-924: the fetch chain of /prepare and the calls it made.
FetchAll(pd, ctRes, ptRes, predRes) ==
    LET a  == GetCTArray(pd, ctRes)
        b  == GetPTArray(a.pd, ptRes)
        s  == GetSEGs(b.pd, predRes)
        c1 == <<Call("retrieve_series", pd.data.ct, ctRes)>>
        c2 == <<Call("retrieve_series", pd.data.pet, ptRes)>>
        c3 == IF pd.data.pred = "" THEN << >>
              ELSE <<Call("retrieve_instance", pd.data.pred, predRes)>>
    IN  IF a.arr = None THEN [pd |-> a.pd, calls |-> c1]
        ELSE IF b.arr = None THEN [pd |-> b.pd, calls |-> c1 \o c2]
        ELSE [pd |-> s.pd, calls |-> c1 \o c2 \o c3]

\* The answers that matter given the ones before them.
PTAnswersAfter(ctRes) ==
    IF ctRes \in {"raise", "empty"} THEN {"unused"} ELSE SeriesAnswers

PredAnswersAfter(ctRes, ptRes, payload) ==
    IF ctRes \in {"raise", "empty"} \/ ptRes \in {"raise", "empty", "unused"}
       \/ payload.pred = ""
    THEN {"unused"} ELSE InstanceAnswers

----------------------------------------------------------------------------
(* /prepare, lines 883-955 *)

\* Mutant of DataDiffers: a comparison by identity (`is not`), which a
\* freshly parsed payload never fails.
DataDiffersAlways(stored, payload) == TRUE

\* line 911: patientData[KEY_DATA] != preparePayloadData (deep comparison of
\* two dictionaries).
DataDiffers(stored, payload) == stored # payload

\* Mutant of AcceptPayload: a new descriptor gets new identifiers.
AcceptPayloadNewUids(pd, payload) ==
    [pd EXCEPT !.data = payload, !.torchData = TorchList,
               !.segSOPInstanceUID = @ + 2, !.segSeriesInstanceUID = @ + 2]

\* Mutant of AcceptPayload: a new descriptor starts the counter again.
AcceptPayloadResetCounter(pd, payload) ==
    [pd EXCEPT !.data = payload, !.torchData = TorchList, !.scribbleCounter = 0]

\* Mutant of AcceptPayload: a new descriptor forgets the published object.
AcceptPayloadForgetsObject(pd, payload) ==
    [pd EXCEPT !.data = payload, !.torchData = TorchList, !.segOrthancID = None]

\* lines 913-914: the new descriptor is stored and the tensor dropped before
\* anything is fetched.
AcceptPayload(pd, payload) ==
    [pd EXCEPT !.data = payload, !.torchData = TorchList]

\* lines 897-906: the table after the lazy creation of the client dictionary
\* and of the session.
EnsureClient(S, c) ==
    IF HasClient(S, c) THEN S
    ELSE [cc \in DOMAIN S \cup {c} |-> IF cc = c THEN NewClientEntry(c) ELSE S[cc]]

EnsureEntry(S, c, p, uid) ==
    LET S1 == EnsureClient(S, c)
    IN  IF p \in DOMAIN S1[c] THEN S1 ELSE PutEntry(S1, c, p, NewSession(uid))

Prepare(c, p) ==
    \E payload \in PreparePayloads(p) :
        LET S1    == EnsureEntry(SESSIONSGLOBAL, c, p, nextUid)
            fresh == p \notin DOMAIN EnsureClient(SESSIONSGLOBAL, c)[c]
            entry == S1[c][p]
        IN  /\ nextUid' = IF fresh THEN nextUid + 2 ELSE nextUid
            /\ UNCHANGED <<archive, nextOrthancId, input, output>>
            /\ IF entry.kind # "session"
               THEN \* line 911 indexes a str with KEY_DATA: TypeError, line 953
                    /\ SESSIONSGLOBAL' = S1
                    /\ UNCHANGED DCMCLIENT
                    /\ last' = Observation("prepare", c, p, payload, "fail", FALSE, << >>,
                                           None, "none", NoResponse)
               ELSE IF ~DataDiffers(entry.data, payload)
               THEN /\ SESSIONSGLOBAL' = S1
                    /\ UNCHANGED DCMCLIENT
                    /\ last' = Observation("prepare", c, p, payload, "ok", TRUE, << >>,
                                           None, "none", NoResponse)
               ELSE LET pd1 == AcceptPayload(entry, payload) IN
                    \E client \in IF DCMCLIENT = "None" THEN {"None", "client"}
                                   ELSE {DCMCLIENT} :
                        /\ DCMCLIENT' = client
                        /\ IF client = "None"
                           THEN /\ SESSIONSGLOBAL' = PutEntry(S1, c, p, pd1)
                                /\ last' = Observation("prepare", c, p, payload, "ok",
                                                       FALSE, << >>, None, "none",
                                                       NoResponse)
                           ELSE \E ctRes \in SeriesAnswers :
                                \E ptRes \in PTAnswersAfter(ctRes) :
                                \E predRes \in PredAnswersAfter(ctRes, ptRes, payload) :
                                    LET f == FetchAll(pd1, ctRes, ptRes, predRes) IN
                                    /\ SESSIONSGLOBAL' = PutEntry(S1, c, p, f.pd)
                                    /\ last' = Observation("prepare", c, p, payload,
                                                           "ok", FALSE, f.calls,
                                                           None, "none", NoResponse)

----------------------------------------------------------------------------
(* Scribble Transform as /process sees it: getDistanceMap, lines 691-710 *)

KEY_AXIAL == "Axial"

KEY_CORONAL == "Coronal"

KEY_SAGITTAL == "Sagittal"

\* Mutant of ViewAxes: the axes are tried from the last to the first.
ViewAxesReversed == <<2, 1, 0>>

\* line 603: for viewIdx in [0,1,2]
ViewAxes == <<0, 1, 2>>

\* Mutant of ViewTypeOf: the names of the first and the last axis exchanged.
ViewTypeOfSwapped(viewIdx) ==
    IF viewIdx = 0 THEN KEY_AXIAL
    ELSE IF viewIdx = 1 THEN KEY_CORONAL
    ELSE KEY_SAGITTAL

\* lines 606-611
ViewTypeOf(viewIdx) ==
    IF viewIdx = 0 THEN KEY_SAGITTAL
    ELSE IF viewIdx = 1 THEN KEY_CORONAL
    ELSE KEY_AXIAL

\* line 604: points3D[:, viewIdx] (numpy counts the axes from 0)
Column(points3D, viewIdx) ==
    [i \in 1..Len(points3D) |-> points3D[i][viewIdx + 1]]

\* np.unique(column)
Unique(column) == {column[i] : i \in DOMAIN column}

\* lines 603-613: the loop over the remaining axes, left by `break` at the
\* first axis whose column holds one value; (None, None) when none does.
RECURSIVE ViewLoop(_, _)
ViewLoop(points3D, axes) ==
    IF axes = << >> THEN [viewType |-> "None", sliceId |-> "None"]
    ELSE LET points3DAtIdx == Column(points3D, Head(axes))
         IN  IF Cardinality(Unique(points3DAtIdx)) = 1
             THEN [viewType |-> ViewTypeOf(Head(axes)),
                   sliceId  |-> points3DAtIdx[1]]
             ELSE ViewLoop(points3D, Tail(axes))

\* lines 596-627
GetViewTypeAndSliceId(points3D) == ViewLoop(points3D, ViewAxes)

\* The scribbles a /process request carries in Spec: two points that share
\* y and z (a plane is found), and two points that share no coordinate
\* (getGaussianDistanceMap returns a bare None at line 667 and the unpacking
\* at lines 698/701 raises).  Every coordinate is inside the smallest volume.
PlaneScribble == <<<<0, 0, 1>>, <<1, 0, 1>>>>

AmbiguousScribble == <<<<0, 0, 0>>, <<1, 1, 1>>>>

Scribbles == {PlaneScribble, AmbiguousScribble}

ScribblesOf(scribbleType) ==
    IF scribbleType \in {KEY_SCRIBBLE_FGD, KEY_SCRIBBLE_BGD} THEN Scribbles
    ELSE {PlaneScribble}

\* lines 665-667: no view, no map.
NoViewFound(points3D) == GetViewTypeAndSliceId(points3D).viewType = "None"

\* Whether getDistanceMap ends in its except clause (lines 706-708).
DistanceMapRaises(scribbleType, scribble) ==
    scribbleType \in {KEY_SCRIBBLE_FGD, KEY_SCRIBBLE_BGD} /\ NoViewFound(scribble)

\* Mutant of GetDistanceMap: the two prior channels exchanged.
GetDistanceMapSwapped(t, scribbleType, scribble) ==
    IF DistanceMapRaises(scribbleType, scribble) THEN t
    ELSE IF scribbleType = KEY_SCRIBBLE_FGD THEN [t EXCEPT !.bgd = "prior"]
    ELSE IF scribbleType = KEY_SCRIBBLE_BGD THEN [t EXCEPT !.fgd = "prior"]
    ELSE t

\* The tensor getDistanceMap returns: channel 3 or 4 of its argument
\* overwritten with the prior map, or its argument as it was.
GetDistanceMap(t, scribbleType, scribble) ==
    IF DistanceMapRaises(scribbleType, scribble) THEN t
    ELSE IF scribbleType = KEY_SCRIBBLE_FGD THEN [t EXCEPT !.fgd = "prior"]
    ELSE IF scribbleType = KEY_SCRIBBLE_BGD THEN [t EXCEPT !.bgd = "prior"]
    ELSE t

\* The debugger's outcomes where a pdb.set_trace() is reached.
DebuggerAt(reached) == IF reached THEN {"continue", "quit"} ELSE {"continue"}

----------------------------------------------------------------------------
(* Mask Publisher: makeSEGDicom, lines 467-590 *)

ArchiveIds(arch) == {o.id : o \in arch}

\* The object makeSEGDicom packages (lines 523-537): the session's two
\* identifiers and the counter in its description.
Package(pd) ==
    [sop     |-> pd.segSOPInstanceUID,
     series  |-> pd.segSeriesInstanceUID,
     counter |-> pd.scribbleCounter]

Stored(pkg, id) ==
    [id |-> id, sop |-> pkg.sop, series |-> pkg.series, counter |-> pkg.counter]

\* Mutant of DeleteNeeded: the create is posted without the delete.
DeleteNeededNever(id) == FALSE

\* line 547: `if instanceOrthanID is not None`
DeleteNeeded(id) == id # None

\* What the archive can answer to DELETE /instances/<id>.
DeleteAnswers(id, arch) ==
    IF id.id \in ArchiveIds(arch) THEN {"200", "500", "exception"}
    ELSE {"404", "500", "exception"}

\* Mutant of DeleteAborts: everything but a 200 ends the publish.
DeleteAbortsUnless200(answer) == answer # "200"

\* lines 549-558: only an exception of requests.delete ends the publish; a
\* response of any status lets it go on.
DeleteAborts(answer) == answer = "exception"

ArchiveAfterDelete(arch, id, answer) ==
    IF answer = "200" THEN {o \in arch : o.id # id.id} ELSE arch

\* What the archive can answer to POST /instances.
CreateAnswers == {"200", "404", "500", "exception"}

\* lines 561-575: an exception inside the try (of requests.post, or BdbQuit
\* out of the debugger entered at line 570) returns at line 575.
CreateAborts(answer, dbg) ==
    answer = "exception" \/ (answer = "404" /\ dbg = "quit")

\* lines 566-567: the id of the response when the status is 200, else the id
\* read at line 542.
IdAfterCreate(old, answer, newId) ==
    IF answer = "200" THEN [kind |-> "id", id |-> newId] ELSE old

ArchiveAfterCreate(arch, pkg, answer, newId) ==
    IF answer = "200" THEN arch \cup {Stored(pkg, newId)} ELSE arch

\* lines 472-538: packaging raises on a mask that is None (np.moveaxis) and
\* when the template or the experiment folder cannot be used.
PackagingRaises(mask, pkgAns) == mask = "None" \/ pkgAns = "raise"

\* makeSEGDicom as a whole.  ret = "tuple" is the return of line 590,
\* ret = "bare" the bare `return makeDICOMStatus` of lines 558 and 575, which
\* the unpacking at line 1016 turns into a TypeError.
MakeSEGDicom(mask, pd, arch, newId, client, pkgAns, delAns, createAns, dbgPost) ==
    LET old     == pd.segOrthancID
        pkg     == Package(pd)
        del     == IF DeleteNeeded(old)
                   THEN <<Call("delete", old.id, delAns)>> ELSE << >>
        arch1   == IF DeleteNeeded(old) THEN ArchiveAfterDelete(arch, old, delAns)
                   ELSE arch
        failed  == [ret |-> "tuple", status |-> FALSE, pd |-> pd,
                    archive |-> arch, calls |-> << >>]
    IN  IF PackagingRaises(mask, pkgAns) \/ client = "None"
        THEN failed
        ELSE IF DeleteNeeded(old) /\ DeleteAborts(delAns)
        THEN [failed EXCEPT !.ret = "bare", !.calls = del]
        ELSE IF CreateAborts(createAns, dbgPost)
        THEN [ret |-> "bare", status |-> FALSE, pd |-> pd, archive |-> arch1,
              calls |-> del \o <<Call("create", 0, createAns)>>]
        ELSE [ret     |-> "tuple",
              status  |-> TRUE,
              pd      |-> [pd EXCEPT !.segOrthancID =
                                        IdAfterCreate(old, createAns, newId)],
              archive |-> ArchiveAfterCreate(arch1, pkg, createAns, newId),
              calls   |-> del \o <<Call("create",
                                        IF createAns = "200" THEN newId ELSE 0,
                                        createAns)>>]

----------------------------------------------------------------------------
(* /process, lines 957-1042 *)

\* Mutant of DoInference: a model that raises still leaves an array behind.
DoInferenceKeepsMask(modelAns) == "mask"

\* lines 292-307: the thresholded output of the model, or the None that
\* segArrayRefinedNumpy was initialised with when the model raised.
DoInference(modelAns) == IF modelAns = "ok" THEN "mask" ELSE "None"

\* line 1013: scribbleCounter += 1, on the session's own dictionary.
CounterAfterTurn(n) == n + 1

\* lines 992-993: the deep copy can be indexed and its channels 3 and 4 sum to 0.
TensorReady(t) == t.kind = "tensor" /\ t.fgd = "zero" /\ t.bgd = "zero"

\* Mutant of TorchDataAfterTurn: the handler works on the session's tensor
\* itself (no copy.deepcopy at line 992).
TorchDataAfterTurnInPlace(stored, worked) == worked

\* line 992: the handler works on a deep copy of the session's tensor, so
\* what getDistanceMap writes never reaches patientData[KEY_TORCH_DATA].
TorchDataAfterTurn(stored, worked) == stored

\* lines 1025-1030
ResponseData(pd) ==
    [kind              |-> "responseData",
     ct                |-> pd.data.ct,
     SeriesInstanceUID |-> pd.segSeriesInstanceUID,
     SOPInstanceUID    |-> pd.segSOPInstanceUID]

RECURSIVE SumCounters(_)
SumCounters(keys) ==
    IF keys = {} THEN 0
    ELSE LET k == CHOOSE x \in keys : TRUE
         IN  Sess(k).scribbleCounter + SumCounters(keys \ {k})

TotalTurns == SumCounters(SessionKeys)

\* payload.data of /process (lines 996-998).
ProcessPayload(scribbleType, scribble) ==
    [scribbleType |-> scribbleType, points3D |-> scribble]

\* Mutant of TableAfterUnknownKey: /process creates the session the way
\* /prepare does (lines 897-906) before it finds nothing to work on.
TableAfterUnknownKeyCreates(S, c, p, uid) == EnsureEntry(S, c, p, uid)

\* lines 972-978 and 1032-1033: a key that holds no session is only looked
\* up; the table is the one the request found.
TableAfterUnknownKey(S, c, p, uid) == S

Failed(c, p, req, calls, torchIn, inference) ==
    Observation("process", c, p, req, "fail", FALSE, calls, torchIn, inference,
                NoResponse)

Process(c, p) ==
    /\ TotalTurns < MaxTurns
    /\ UNCHANGED <<DCMCLIENT, nextUid, input, output>>
    /\ \E scribbleType \in ScribbleTypes :
       \E scribble \in ScribblesOf(scribbleType) :
       LET req == ProcessPayload(scribbleType, scribble) IN
       IF ~IsSession(SESSIONSGLOBAL, c, p)
       THEN \* line 1033, or line 992 indexing a str with KEY_TORCH_DATA
            /\ SESSIONSGLOBAL' = TableAfterUnknownKey(SESSIONSGLOBAL, c, p, nextUid)
            /\ UNCHANGED <<archive, nextOrthancId>>
            /\ last' = Failed(c, p, req, << >>, None, "none")
       ELSE LET pd0 == SESSIONSGLOBAL[c][p] IN
            IF ~TensorReady(pd0.torchData)
            THEN \* lines 992-993: TypeError on a list, or the assertion
                 /\ UNCHANGED <<SESSIONSGLOBAL, archive, nextOrthancId>>
                 /\ last' = Failed(c, p, req, << >>, None, "none")
            ELSE
            \E dbgDist \in DebuggerAt(DistanceMapRaises(scribbleType, scribble)) :
                LET t == GetDistanceMap(pd0.torchData, scribbleType, scribble) IN
                IF dbgDist = "quit"
                THEN \* BdbQuit at line 710
                     /\ UNCHANGED <<SESSIONSGLOBAL, archive, nextOrthancId>>
                     /\ last' = Failed(c, p, req, << >>, None, "none")
                ELSE
                \E modelAns \in {"ok", "raise"} :
                \E dbgInf \in DebuggerAt(modelAns = "raise") :
                    IF dbgInf = "quit"
                    THEN \* BdbQuit at line 307
                         /\ UNCHANGED <<SESSIONSGLOBAL, archive, nextOrthancId>>
                         /\ last' = Failed(c, p, req, << >>, t, modelAns)
                    ELSE
                    LET mask == DoInference(modelAns)
                        pd1  == [pd0 EXCEPT
                                   !.scribbleCounter = CounterAfterTurn(@),
                                   !.torchData = TorchDataAfterTurn(@, t)]
                    IN
                    \E pkgAns \in IF mask = "None" THEN {"raise"} ELSE {"ok", "raise"} :
                    \E delAns \in IF PackagingRaises(mask, pkgAns)
                                     \/ ~DeleteNeeded(pd1.segOrthancID)
                                  THEN {"unused"}
                                  ELSE DeleteAnswers(pd1.segOrthancID, archive) :
                    \E createAns \in IF PackagingRaises(mask, pkgAns)
                                        \/ (DeleteNeeded(pd1.segOrthancID)
                                            /\ DeleteAborts(delAns))
                                     THEN {"unused"} ELSE CreateAnswers :
                    \E dbgPost \in DebuggerAt(createAns = "404") :
                        LET r == MakeSEGDicom(mask, pd1, archive, nextOrthancId,
                                              DCMCLIENT, pkgAns, delAns, createAns,
                                              dbgPost)
                            ok == r.ret = "tuple" /\ r.status
                        IN  /\ SESSIONSGLOBAL' = PutEntry(SESSIONSGLOBAL, c, p, r.pd)
                            /\ archive' = r.archive
                            /\ nextOrthancId' =
                                  IF createAns = "200" /\ ok
                                  THEN nextOrthancId + 1 ELSE nextOrthancId
                            /\ last' =
                                  IF ok
                                  THEN Observation("process", c, p, req, "ok", FALSE,
                                                   r.calls, t, modelAns,
                                                   ResponseData(r.pd))
                                  ELSE Failed(c, p, req, r.calls, t, modelAns)

----------------------------------------------------------------------------
(* Specification *)

\* No function has been applied to the input.
NotApplied == [kind |-> "notApplied"]

NoObservation ==
    Observation("none", "", "", None, "none", FALSE, << >>, None, "none",
                NoResponse)

Init ==
    /\ SESSIONSGLOBAL = << >>
    /\ DCMCLIENT = "None"
    /\ archive = {}
    /\ nextOrthancId = 1
    /\ nextUid = 1
    /\ last = NoObservation
    /\ input = << >>
    /\ output = NotApplied

Next ==
    \/ \E c \in Clients, p \in CaseNames : Prepare(c, p)
    \/ \E c \in Clients, p \in CaseNames : Process(c, p)

Spec == Init /\ [][Next]_vars

----------------------------------------------------------------------------
(* Requests for two keys *)

\* Two case names of one client, each with a session of its own.
PairKeys == {<<"c1", "p1">>, <<"c1", "p2">>}

\* The environment of PairSpec, read off the observation of the request:
\* descriptors that name a prediction, foreground scribbles in one plane, a
\* model that answers, and an archive that either answers or is unreachable.
PairEnv ==
    /\ last.op = "prepare" => last.req.pred # ""
    /\ last.op = "process" =>
          /\ last.req = ProcessPayload(KEY_SCRIBBLE_FGD, PlaneScribble)
          /\ last.inference # "raise"
    /\ \A i \in 1..Len(last.calls) :
          last.calls[i].answer \in {"ok", "raise", "200", "exception"}

PairPrepare == \E k \in PairKeys : Prepare(k[1], k[2]) /\ PairEnv'

PairProcess ==
    \E k \in PairKeys : TotalTurns < MaxPairTurns /\ Process(k[1], k[2]) /\ PairEnv'

PairNext == PairPrepare \/ PairProcess

PairSpec == Init /\ [][PairNext]_vars

----------------------------------------------------------------------------
(* getViewTypeAndSliceId on its own *)

Coords == {0, 1, 2}

\* np.array([list(x) for x in points3D]) of line 997: the non-empty
\* sequences of at most MaxPoints integer points.
PointSeqs == UNION {[1..n -> Coords \X Coords \X Coords] : n \in 1..MaxPoints}

ViewInit ==
    /\ SESSIONSGLOBAL = << >>
    /\ DCMCLIENT = "None"
    /\ archive = {}
    /\ nextOrthancId = 1
    /\ nextUid = 1
    /\ last = NoObservation
    /\ input \in PointSeqs
    /\ output = NotApplied

ApplyGetViewTypeAndSliceId ==
    /\ output = NotApplied
    /\ output' = GetViewTypeAndSliceId(input)
    /\ UNCHANGED <<SESSIONSGLOBAL, DCMCLIENT, archive, nextOrthancId, nextUid,
                   last, input>>

ViewNext == ApplyGetViewTypeAndSliceId

ViewSpec == ViewInit /\ [][ViewNext]_vars

----------------------------------------------------------------------------
(* getGaussianDistanceMap and getDistanceMap on a volume of their own *)

DISTMAP_Z == 3

\* DISTMAP_SIGMA = 0.005, as the fraction 1/200.
DISTMAP_SIGMA == <<1, 200>>

\* The voxels of np.zeros_like(ctArray), by their three array indices from 0.
Voxels(shape) == (0..(shape[1] - 1)) \X (0..(shape[2] - 1)) \X (0..(shape[3] - 1))

\* line 672: the index points3DInVolume[points3D[:,1], points3D[:,0],
\* points3D[:,2]] names for one point (x, y, z): first y, then x, then z.
StoredIndex(pt) == <<pt[2], pt[1], pt[3]>>

\* numpy accepts an index i on an axis of length d when -d <= i < d and
\* counts a negative one from the end; any other raises IndexError.
IndexFits(i, d) == -d <= i /\ i < d

Wrapped(i, d) == IF i < 0 THEN i + d ELSE i

AllIndicesFit(shape, points3D) ==
    \A n \in 1..Len(points3D) : \A a \in 1..3 :
        IndexFits(StoredIndex(points3D[n])[a], shape[a])

\* line 672: the voxels set to 1.
Indicator(shape, points3D) ==
    {[a \in 1..3 |-> Wrapped(StoredIndex(points3D[n])[a], shape[a])] :
        n \in 1..Len(points3D)}

\* lines 675-677
Sampling(viewType, distZ) ==
    IF viewType = KEY_AXIAL THEN <<1, 1, distZ>>
    ELSE IF viewType = KEY_SAGITTAL THEN <<distZ, 1, 1>>
    ELSE <<1, distZ, 1>>

\* The square of the distance between two voxels under a sampling.
SqDist(v, w, sampling) ==
    ((v[1] - w[1]) * sampling[1]) * ((v[1] - w[1]) * sampling[1])
    + ((v[2] - w[2]) * sampling[2]) * ((v[2] - w[2]) * sampling[2])
    + ((v[3] - w[3]) * sampling[3]) * ((v[3] - w[3]) * sampling[3])

SetMin(S) == CHOOSE x \in S : \A y \in S : x <= y

SetMax(S) == CHOOSE x \in S : \A y \in S : x >= y

\* Mutant of ZeroVoxels: the transform is taken of the indicator itself.
ZeroVoxelsOfIndicator(shape, indicator) == Voxels(shape) \ indicator

\* line 678: the zeros of 1 - points3DInVolume, to which
\* distance_transform_edt measures.
ZeroVoxels(shape, indicator) == indicator

\* line 678: scipy.ndimage.distance_transform_edt, squared: for every voxel
\* the square of the distance to the nearest zero voxel (0 on a zero voxel).
SqEdt(shape, zeros, sampling) ==
    [v \in Voxels(shape) |->
        IF zeros = {} THEN 0
        ELSE SetMin({SqDist(v, w, sampling) : w \in zeros})]

\* lines 680-683 for one voxel: with r = distance / maxVal the value is
\* exp(-(1 - (1 - r))^2 / (2 sigma^2)) = exp(-num / den) for the two integers
\* below; 0/0 is nan when maxVal is 0 (numpy warns, it does not raise).
Gaussian(sqDistance, sqMaxVal, sigma) ==
    IF sqMaxVal = 0 THEN [kind |-> "nan"]
    ELSE [kind |-> "exp",
          num  |-> sqDistance * sigma[2] * sigma[2],
          den  |-> sqMaxVal * 2 * sigma[1] * sigma[1]]

\* lines 658-689, up to the except clause: a bare None (line 667), or the
\* triple of line 689 whose map is None when line 672 raised IndexError.
GetGaussianDistanceMap(shape, points3D, distZ, sigma) ==
    LET view == GetViewTypeAndSliceId(points3D) IN
    IF view.viewType = "None" THEN [kind |-> "bareNone"]
    ELSE IF ~AllIndicesFit(shape, points3D)
    THEN [kind |-> "tuple", raised |-> TRUE, map |-> None,
          viewType |-> view.viewType, sliceId |-> view.sliceId,
          sampling |-> None]
    ELSE LET sampling == Sampling(view.viewType, distZ)
             edt      == SqEdt(shape, ZeroVoxels(shape, Indicator(shape, points3D)),
                               sampling)
             maxVal   == SetMax({edt[v] : v \in Voxels(shape)})
         IN  [kind |-> "tuple", raised |-> FALSE,
              map |-> [v \in Voxels(shape) |-> Gaussian(edt[v], maxVal, sigma)],
              viewType |-> view.viewType, sliceId |-> view.sliceId,
              sampling |-> sampling]

\* Whether getDistanceMap reaches its except clause (lines 706-708): the
\* unpacking of a bare None, or torch.tensor(None).
MapRaises(g) == g.kind = "bareNone" \/ g.map = None

\* A channel of the tensor that is zero everywhere.
ZeroChannel == [kind |-> "zero"]

\* lines 691-710 on a tensor whose channels 3 and 4 are zero: the two
\* channels it returns, and what getGaussianDistanceMap gave it.
GetDistanceMapOn(shape, scribbleType, points3D, distZ, sigma) ==
    LET g == GetGaussianDistanceMap(shape, points3D, distZ, sigma)
    IN  [gauss |-> g,
         fgd   |-> IF scribbleType = KEY_SCRIBBLE_FGD /\ ~MapRaises(g)
                   THEN g.map ELSE ZeroChannel,
         bgd   |-> IF scribbleType = KEY_SCRIBBLE_BGD /\ ~MapRaises(g)
                   THEN g.map ELSE ZeroChannel]

MapCoords == {0, 1}

MapPointSeqs ==
    UNION {[1..n -> MapCoords \X MapCoords \X MapCoords] : n \in 1..MaxPoints}

\* Every volume of one or two voxels along each axis.
MapShapes == {1, 2} \X {1, 2} \X {1, 2}

\* A volume of 10 x 64 x 64 voxels with three points of its z = 4 plane.
ScenarioInput ==
    [shape        |-> <<10, 64, 64>>,
     points3D     |-> <<<<30, 30, 4>>, <<31, 30, 4>>, <<30, 31, 4>>>>,
     scribbleType |-> KEY_SCRIBBLE_FGD]

MapInputs ==
    [shape : MapShapes, points3D : MapPointSeqs,
     scribbleType : {KEY_SCRIBBLE_FGD, KEY_SCRIBBLE_BGD}]
    \cup {ScenarioInput}

MapInit ==
    /\ SESSIONSGLOBAL = << >>
    /\ DCMCLIENT = "None"
    /\ archive = {}
    /\ nextOrthancId = 1
    /\ nextUid = 1
    /\ last = NoObservation
    /\ input \in MapInputs
    /\ output = NotApplied

\* One call of getDistanceMap; the debugger of line 708 is left by
\* "continue" (the tensor is returned) or by "quit" (BdbQuit leaves the
\* function).
ApplyGetDistanceMap ==
    /\ output = NotApplied
    /\ LET r == GetDistanceMapOn(input.shape, input.scribbleType, input.points3D,
                                 DISTMAP_Z, DISTMAP_SIGMA)
       IN  \E dbg \in DebuggerAt(MapRaises(r.gauss)) :
               output' = [kind |-> "distanceMap", gauss |-> r.gauss,
                          fgd |-> r.fgd, bgd |-> r.bgd,
                          exit |-> IF dbg = "quit" THEN "BdbQuit" ELSE "return"]
    /\ UNCHANGED <<SESSIONSGLOBAL, DCMCLIENT, archive, nextOrthancId, nextUid,
                   last, input>>

MapNext == ApplyGetDistanceMap

MapSpec == MapInit /\ [][MapNext]_vars

----------------------------------------------------------------------------
(* The array fill of getCTArray on a series of its own *)

\* line 342: sorted(ctInstances, key=lambda x: int(x.InstanceNumber)), on
\* the instance numbers.
RECURSIVE SortedNumbers(_)
SortedNumbers(numbers) ==
    IF numbers = {} THEN << >>
    ELSE <<SetMin(numbers)>> \o SortedNumbers(numbers \ {SetMin(numbers)})

\* line 350: a pixel array of shape (Rows, Columns) is assigned to the slice
\* ctArray[:, :, k] of shape (N, Rows); numpy stretches an axis of the
\* source only when its length is 1.
Broadcasts(n, rows, columns) ==
    /\ columns = rows \/ columns = 1
    /\ rows = n \/ rows = 1

\* The element of the pixel array of instance k that the assignment puts at
\* [a, b] of the slice.
PixelAt(k, rows, columns, a, b) ==
    [kind |-> "pixel", inst |-> k,
     row |-> IF rows = 1 THEN 0 ELSE a,
     col |-> IF columns = 1 THEN 0 ELSE b]

\* lines 349-350: the loop over the sorted instances; "raise" as soon as an
\* assignment raises (an index outside the last axis, shapes that do not
\* broadcast).
RECURSIVE FillLoop(_, _, _, _)
FillLoop(ctArray, rest, rows, columns) ==
    IF rest = << >> THEN [kind |-> "array", array |-> ctArray]
    ELSE LET k   == Head(rest)
             n   == Cardinality({v[1] : v \in DOMAIN ctArray})
             idx == k - 1
         IN  IF ~IndexFits(idx, columns) \/ ~Broadcasts(n, rows, columns)
             THEN [kind |-> "raise"]
             ELSE FillLoop([v \in DOMAIN ctArray |->
                               IF v[3] = Wrapped(idx, columns)
                               THEN PixelAt(k, rows, columns, v[1], v[2])
                               ELSE ctArray[v]],
                           Tail(rest), rows, columns)

\* lines 341-361 for a series that is not empty: the instance list and
\* channel 0 stored in the session, or nothing stored when the loop raised
\* (line 364 swallows the exception).
FillCTArray(numbers, rows, columns) ==
    LET ctInstances == SortedNumbers(numbers)
        shape       == <<Len(ctInstances), rows, columns>>
        filled      == FillLoop([v \in Voxels(shape) |-> ZeroChannel],
                                ctInstances, rows, columns)
    IN  IF filled.kind = "raise" THEN [kind |-> "raise"]
        ELSE [kind |-> "tensor", shape |-> shape, channel0 |-> filled.array,
              dcmList |-> ctInstances]

\* The instance numbers a series may carry, and its row and column counts.
InstanceNumbers == 0..(MaxInstances + 1)

SliceSizes == {1, 2, 3}

\* Series of 1..MaxInstances instances with distinct instance numbers.
CTInputs ==
    [numbers : {ns \in SUBSET InstanceNumbers :
                   ns # {} /\ Cardinality(ns) <= MaxInstances},
     Rows : SliceSizes, Columns : SliceSizes]

CTInit ==
    /\ SESSIONSGLOBAL = << >>
    /\ DCMCLIENT = "None"
    /\ archive = {}
    /\ nextOrthancId = 1
    /\ nextUid = 1
    /\ last = NoObservation
    /\ input \in CTInputs
    /\ output = NotApplied

ApplyFillCTArray ==
    /\ output = NotApplied
    /\ output' = FillCTArray(input.numbers, input.Rows, input.Columns)
    /\ UNCHANGED <<SESSIONSGLOBAL, DCMCLIENT, archive, nextOrthancId, nextUid,
                   last, input>>

CTNext == ApplyFillCTArray

CTSpec == CTInit /\ [][CTNext]_vars

----------------------------------------------------------------------------
(* Properties *)

\* The calls of one kind among the archive calls of a request.
CallsOf(calls, name) == {i \in 1..Len(calls) : calls[i].call = name}

\* The answers the archive gave to the calls of one kind.
AnswersOf(calls, name) == {calls[i].answer : i \in CallsOf(calls, name)}

\* The step is a /process request for a key that held a session.
ProcessStepOn(c, p) ==
    /\ last'.op = "process" /\ last'.c = c /\ last'.p = p
    /\ IsSession(SESSIONSGLOBAL, c, p)

\* The step is a /prepare request for a key that held a session.
PrepareStepOn(c, p) ==
    /\ last'.op = "prepare" /\ last'.c = c /\ last'.p = p
    /\ IsSession(SESSIONSGLOBAL, c, p)

\* The objects in the archive that carry the identifiers of session k.
ObjectsOf(k) == {o \in archive : o.sop = Sess(k).segSOPInstanceUID}

\* C1: the archive never holds two objects created by one session at the
\* same time, whatever it answered to the deletes.
C1_OneObjectPerSession ==
    \A k \in SessionKeys : Cardinality(ObjectsOf(k)) <= 1

\* C2: in every publish, a create is preceded by one delete, for exactly the
\* session's publishedObjectId, when that id is present; when it is absent
\* no delete is issued and the create comes first.
C2_DeleteBeforeCreate ==
    [][\A c \in Clients, p \in CaseNames :
         ProcessStepOn(c, p) =>
            LET old   == SESSIONSGLOBAL[c][p].segOrthancID
                calls == last'.calls
            IN  /\ \A i \in CallsOf(calls, "delete") :
                      old # None /\ calls[i].id = old.id /\ i = 1
                /\ \A i \in CallsOf(calls, "create") :
                      IF old # None
                      THEN i = 2 /\ calls[1].call = "delete"
                      ELSE i = 1]_vars

\* A republish: the delete of the published object, then the create.
C2_Witness ==
    /\ last.op = "process"
    /\ Len(last.calls) = 2
    /\ last.calls[1].call = "delete"
    /\ last.calls[2].call = "create"

\* The publish of the step failed at some point: it was reached (the counter
\* moved) and packaging raised, a delete did not answer 200 or 404, or the
\* create did not answer 200.
PublishFailedIn(c, p) ==
    /\ SESSIONSGLOBAL'[c][p].scribbleCounter # SESSIONSGLOBAL[c][p].scribbleCounter
    /\ \/ AnswersOf(last'.calls, "create") # {"200"}
       \/ AnswersOf(last'.calls, "delete") \ {"200", "404"} # {}

\* C3: a publish that fails at any step leaves publishedObjectId as it was
\* and ends the request in a failure; publishedObjectId changes only in a
\* turn whose create succeeded.
C3_FailedPublishKeepsId ==
    [][\A c \in Clients, p \in CaseNames :
         ProcessStepOn(c, p) =>
            /\ PublishFailedIn(c, p) =>
                  /\ SESSIONSGLOBAL'[c][p].segOrthancID
                        = SESSIONSGLOBAL[c][p].segOrthancID
                  /\ last'.status = "fail"
            /\ SESSIONSGLOBAL'[c][p].segOrthancID
                  # SESSIONSGLOBAL[c][p].segOrthancID
               => "200" \in AnswersOf(last'.calls, "create")]_vars

\* C4: a delete that fails in any way other than a 404 aborts the publish:
\* no create is issued and the request fails.
C4_DeleteFailureAborts ==
    (last.op = "process"
       /\ AnswersOf(last.calls, "delete") \ {"200", "404"} # {})
    => (CallsOf(last.calls, "create") = {} /\ last.status = "fail")

\* C5: a create that the archive does not answer with success aborts the
\* publish, and the request is reported as failed.
C5_CreateFailureReported ==
    (last.op = "process" /\ AnswersOf(last.calls, "create") \ {"200"} # {})
    => last.status = "fail"

\* C6: after a delete answered with 404 the create is issued, and when it
\* succeeds the session's publishedObjectId is the id it returned and the
\* request succeeds.
C6_Delete404Continues ==
    (last.op = "process" /\ "404" \in AnswersOf(last.calls, "delete"))
    => /\ Len(last.calls) = 2
       /\ last.calls[2].call = "create"
       /\ last.calls[2].answer = "200" =>
             /\ last.status = "ok"
             /\ Sess(<<last.c, last.p>>).segOrthancID
                   = [kind |-> "id", id |-> last.calls[2].id]

C6_Witness ==
    /\ last.op = "process"
    /\ "404" \in AnswersOf(last.calls, "delete")
    /\ "200" \in AnswersOf(last.calls, "create")
    /\ last.status = "ok"

\* The two identifiers of a session record.
UidsOf(pd) == <<pd.segSeriesInstanceUID, pd.segSOPInstanceUID>>

\* C7: publishedSeriesId and publishedObjectUid are generated once, when the
\* session is created, and no later prepare or refine changes them; every
\* object published for the session and every refine response carries them.
C7_StableUids ==
    /\ [][/\ \A k \in SessionKeys :
                k \in SessionKeys' /\ UidsOf(Sess(k)') = UidsOf(Sess(k))
          /\ nextUid' # nextUid => SessionKeys' # SessionKeys]_vars
    /\ [](last.op = "process" /\ IsSession(SESSIONSGLOBAL, last.c, last.p) =>
            LET pd == Sess(<<last.c, last.p>>) IN
            /\ \A i \in CallsOf(last.calls, "create") :
                  last.calls[i].answer = "200" =>
                     \E o \in archive : /\ o.id = last.calls[i].id
                                        /\ <<o.series, o.sop>> = UidsOf(pd)
            /\ last.status = "ok" =>
                  <<last.response.SeriesInstanceUID,
                    last.response.SOPInstanceUID>> = UidsOf(pd))

\* A second successful publish of a session, answered to the client.
C7_Witness ==
    /\ last.op = "process"
    /\ last.status = "ok"
    /\ "200" \in AnswersOf(last.calls, "delete")
    /\ "200" \in AnswersOf(last.calls, "create")
    /\ Sess(<<last.c, last.p>>).scribbleCounter >= 2

\* The turn of the step succeeded: inference returned a mask, the published
\* object (if any) was deleted or already gone, and the create succeeded.
TurnSucceeded ==
    /\ last'.inference = "ok"
    /\ AnswersOf(last'.calls, "create") = {"200"}
    /\ AnswersOf(last'.calls, "delete") \subseteq {"200", "404"}

\* C8: refinementCounter grows by one in a successful turn and is unchanged
\* by a failed one.
C8_CounterCountsSuccesses ==
    [][\A c \in Clients, p \in CaseNames :
         ProcessStepOn(c, p) =>
            SESSIONSGLOBAL'[c][p].scribbleCounter =
               IF TurnSucceeded
               THEN SESSIONSGLOBAL[c][p].scribbleCounter + 1
               ELSE SESSIONSGLOBAL[c][p].scribbleCounter]_vars

\* C9: no prepare and no refine, a prepare with another descriptor
\* included, decreases refinementCounter or sets it back to 0.
C9_CounterNeverDecreases ==
    [][\A k \in SessionKeys :
          /\ k \in SessionKeys'
          /\ Sess(k)'.scribbleCounter >= Sess(k).scribbleCounter]_vars

\* A prepare with another descriptor on a session that has counted turns.
C9_Witness ==
    /\ last.op = "prepare"
    /\ last.status = "ok"
    /\ ~last.reused
    /\ IsSession(SESSIONSGLOBAL, last.c, last.p)
    /\ Sess(<<last.c, last.p>>).scribbleCounter > 0

\* C10: a prepare whose descriptor equals the stored one answers reused,
\* fetches nothing and changes no field of the session.
C10_SamePrepareReuses ==
    [][\A c \in Clients, p \in CaseNames :
         (PrepareStepOn(c, p) /\ SESSIONSGLOBAL[c][p].data = last'.req) =>
            /\ last'.status = "ok"
            /\ last'.reused
            /\ last'.calls = << >>
            /\ SESSIONSGLOBAL' = SESSIONSGLOBAL
            /\ DCMCLIENT' = DCMCLIENT]_vars

\* A repeated prepare on a session that holds a fetched tensor.
C10_Witness ==
    /\ last.op = "prepare"
    /\ last.reused
    /\ Sess(<<last.c, last.p>>).torchData.kind = "tensor"
    /\ Sess(<<last.c, last.p>>).data = last.req

\* The primary fetch of the request filled the session: retrieve_series for
\* the CT was called and answered with instances that fit the volume.
CTFetched(calls) == Len(calls) >= 1 /\ calls[1].answer = "ok"

\* Some fetch of the request failed: the archive client could not be made,
\* or a retrieve call did not answer with usable instances.
SomeFetchFailed(calls) ==
    calls = << >> \/ \E i \in 1..Len(calls) : calls[i].answer # "ok"

\* C11: a prepare with a descriptor that differs from the stored one stores
\* the new descriptor, answers reused = false, and clears both the tensor
\* and the instance order before it fetches: when the primary fetch fails,
\* the session holds no tensor and no instance order.
C11_ChangedPrepareClears ==
    [][\A c \in Clients, p \in CaseNames :
         (PrepareStepOn(c, p) /\ SESSIONSGLOBAL[c][p].data # last'.req) =>
            /\ SESSIONSGLOBAL'[c][p].data = last'.req
            /\ ~last'.reused
            /\ ~CTFetched(last'.calls) =>
                  /\ SESSIONSGLOBAL'[c][p].torchData.kind # "tensor"
                  /\ SESSIONSGLOBAL'[c][p].dcmList.len = 0]_vars

\* C12: a prepare in which a fetch fails ends in a failure and leaves the
\* session's descriptor, tensor and instance order as they were.
C12_FetchFailureFailsPrepare ==
    [][\A c \in Clients, p \in CaseNames :
         (PrepareStepOn(c, p) /\ ~last'.reused /\ SomeFetchFailed(last'.calls)) =>
            /\ last'.status = "fail"
            /\ SESSIONSGLOBAL'[c][p].data = SESSIONSGLOBAL[c][p].data
            /\ SESSIONSGLOBAL'[c][p].torchData = SESSIONSGLOBAL[c][p].torchData
            /\ SESSIONSGLOBAL'[c][p].dcmList = SESSIONSGLOBAL[c][p].dcmList]_vars

\* The tensor holds every series the descriptor names: the PET in channel 1
\* and, when a prediction is named, the prediction in channel 2.
FullyFetched(t, data) ==
    /\ t.ct = data.ct
    /\ t.pt = data.pet
    /\ data.pred # "" => t.pred = data.pred

\* C13: inference is never run on a tensor that a failed fetch left partly
\* filled.  The descriptors with a CT of the shape of the other series are
\* the ones where a channel stays empty only because its fetch failed.
C13_NoInferenceAfterFailedFetch ==
    (/\ last.op = "process"
     /\ last.inference # "none"
     /\ IsSession(SESSIONSGLOBAL, last.c, last.p)
     /\ Sess(<<last.c, last.p>>).data.ct = "ct2")
    => FullyFetched(last.torchIn, Sess(<<last.c, last.p>>).data)

\* C14: a refine for a key that holds no session fails, creates no session,
\* changes no session and makes no archive call.
C14_UnknownKeyFails ==
    [][\A c \in Clients, p \in CaseNames :
         (/\ last'.op = "process" /\ last'.c = c /\ last'.p = p
          /\ ~IsSession(SESSIONSGLOBAL, c, p)) =>
            /\ last'.status = "fail"
            /\ last'.calls = << >>
            /\ last'.inference = "none"
            /\ SESSIONSGLOBAL' = SESSIONSGLOBAL
            /\ archive' = archive]_vars

\* A refine for a key that was never prepared, failed, no session since.
C14_Witness ==
    /\ last.op = "process"
    /\ last.status = "fail"
    /\ ~HasEntry(SESSIONSGLOBAL, last.c, last.p)

\* C15: in every reachable state, channels 3 and 4 of the tensor of every
\* fetched session are zero, so the check a refine turn starts with never
\* fails on a fetched session.
C15_PriorChannelsZero ==
    \A k \in SessionKeys :
        Sess(k).torchData.kind = "tensor" =>
            /\ Sess(k).torchData.fgd = "zero"
            /\ Sess(k).torchData.bgd = "zero"
            /\ TensorReady(Sess(k).torchData)

\* A later turn of a session went past the check and wrote its prior, after
\* an earlier turn of the same session.
C15_Witness ==
    /\ last.op = "process"
    /\ last.torchIn # None
    /\ "prior" \in {last.torchIn.fgd, last.torchIn.bgd}
    /\ Sess(<<last.c, last.p>>).scribbleCounter >= 2

\* The axes on which all points of the input share one coordinate.
SharedAxes == {a \in {0, 1, 2} : \A i, j \in DOMAIN input : input[i][a + 1] = input[j][a + 1]}

\* The view the specification names for each axis.
AxisName(a) == IF a = 0 THEN "Sagittal" ELSE IF a = 1 THEN "Coronal" ELSE "Axial"

\* C18: for a non-empty sequence of integer points the detection returns the
\* lowest axis on which all points share their coordinate, with that
\* coordinate as the slice; it returns no view exactly when there is no
\* such axis.
C18_LowestSharedAxis ==
    output # NotApplied =>
        /\ output.viewType = "None" <=> SharedAxes = {}
        /\ output.viewType # "None" =>
              \E a \in SharedAxes :
                  /\ \A b \in SharedAxes : a <= b
                  /\ output.viewType = AxisName(a)
                  /\ \A i \in DOMAIN input : input[i][a + 1] = output.sliceId

\* Two different points that share their coordinate on more than one axis.
C18_Witness ==
    /\ output # NotApplied
    /\ Len(input) = 2
    /\ input[1] # input[2]
    /\ Cardinality(SharedAxes) = 2
    /\ output.viewType = "Coronal"

\* The last request was a refine turn that got past the readiness check
\* with a scribble of a known polarity lying in one plane.
PlaneTurn ==
    /\ last.op = "process"
    /\ last.torchIn # None
    /\ last.req.scribbleType \in {KEY_SCRIBBLE_FGD, KEY_SCRIBBLE_BGD}
    /\ ~NoViewFound(last.req.points3D)

C17_UnknownPolarityFails ==
    (/\ last.op = "process"
     /\ last.req.scribbleType \notin {KEY_SCRIBBLE_FGD, KEY_SCRIBBLE_BGD})
    => /\ last.status = "fail"
       /\ last.inference = "none"
       /\ last.calls = << >>

\* C19: a refine whose scribble points share no coordinate on any axis
\* fails: no prior is written, no inference is run, nothing is published.
C19_AmbiguousScribbleFails ==
    (/\ last.op = "process"
     /\ last.req.scribbleType \in {KEY_SCRIBBLE_FGD, KEY_SCRIBBLE_BGD}
     /\ NoViewFound(last.req.points3D))
    => /\ last.status = "fail"
       /\ last.inference = "none"
       /\ last.calls = << >>
       /\ last.torchIn # None =>
             last.torchIn.fgd = "zero" /\ last.torchIn.bgd = "zero"

\* The points of the scenario: both have x = 1.
ScenarioPoints == <<<<1, 1, 1>>, <<1, 2, 2>>>>

\* C20 as stated: for the points (1,1,1), (1,2,2) the detection finds no
\* view axis.
C20_ScenarioIsAmbiguous ==
    (output # NotApplied /\ input = ScenarioPoints) => output.viewType = "None"

\* C20, amended: for the points (1,1,1), (1,2,2) the detection does not
\* fail; the points share x = 1, so it returns axis 0 (sagittal) with
\* slice 1.
C20_ScenarioIsSagittal ==
    (output # NotApplied /\ input = ScenarioPoints) =>
        /\ output.viewType = "Sagittal"
        /\ output.sliceId = 1

C20_Witness ==
    /\ input = ScenarioPoints
    /\ output # NotApplied
    /\ output.viewType # "None"

\* C23: when the model raises in a refine turn, the request fails, the
\* session's stored tensor is what it was before the turn, nothing is
\* published or deleted, and the session is still one a later request can
\* work on.
C23_ModelFailureIsLocal ==
    [][\A c \in Clients, p \in CaseNames :
         (ProcessStepOn(c, p) /\ last'.inference = "raise") =>
            /\ last'.status = "fail"
            /\ last'.calls = << >>
            /\ archive' = archive
            /\ IsSession(SESSIONSGLOBAL', c, p)
            /\ SESSIONSGLOBAL'[c][p].torchData = SESSIONSGLOBAL[c][p].torchData
            /\ TensorReady(SESSIONSGLOBAL'[c][p].torchData)
            /\ \A k \in SessionKeys : k # <<c, p>> => Sess(k)' = Sess(k)]_vars

\* A turn in which the model raised, on a session that had published before.
C23_Witness ==
    /\ last.op = "process"
    /\ last.inference = "raise"
    /\ last.status = "fail"
    /\ Sess(<<last.c, last.p>>).segOrthancID # None
    /\ last.torchIn.fgd = "prior"

\* C24: a prepare in which the PET array or the prediction array was read
\* but has another shape than the CT array ends in a failure.
C24_ShapeMismatchFailsPrepare ==
    (/\ last.op = "prepare"
     /\ Len(last.calls) >= 2
     /\ last.calls[1].answer = "ok"
     /\ \E i \in 2..Len(last.calls) :
           /\ last.calls[i].answer = "ok"
           /\ SeriesLen(last.calls[i].id) # SeriesLen(last.calls[1].id))
    => last.status = "fail"

\* C25: in every state the instance order of a session has as many entries
\* as its tensor has slices, and a session without a tensor holds no
\* instance order.
C25_InstanceOrderMatchesTensor ==
    \A k \in SessionKeys :
        IF Sess(k).torchData.kind = "tensor"
        THEN /\ Sess(k).dcmList.len = Sess(k).torchData.n
             /\ Sess(k).dcmList.series = Sess(k).torchData.ct
        ELSE Sess(k).dcmList.len = 0

\* C27: the first prepare that carries a key creates a session record for
\* it, whatever the two strings are, and a session record in the table is
\* in the table, with its identifiers, in every later state.
C27_SessionCreatedAndKept ==
    [][/\ \A c \in Clients, p \in CaseNames :
             (last'.op = "prepare" /\ last'.c = c /\ last'.p = p)
                => IsSession(SESSIONSGLOBAL', c, p)
       /\ \A k \in SessionKeys :
             k \in SessionKeys' /\ UidsOf(Sess(k)') = UidsOf(Sess(k))]_vars

\* C26: a request that carries key K leaves the record of every session
\* with another key as it was: descriptor, tensor, instance order, counter
\* and published ids.
C26_OtherSessionsUntouched ==
    [][\A k \in SessionKeys :
          k # <<last'.c, last'.p>> => (k \in SessionKeys' /\ Sess(k)' = Sess(k))]_vars

\* A refine for one key was published while the session of the other key
\* holds a tensor and a published object of its own.
C26_Witness ==
    /\ last.op = "process"
    /\ last.status = "ok"
    /\ \E k \in SessionKeys :
          /\ k # <<last.c, last.p>>
          /\ Sess(k).torchData.kind = "tensor"
          /\ Sess(k).segOrthancID # None

\* The voxels of the input volume.
InputVoxels ==
    {v \in (0..(input.shape[1] - 1)) \X (0..(input.shape[2] - 1))
           \X (0..(input.shape[3] - 1)) : TRUE}

\* The voxels the scribble of the input marks: point (x, y, z) marks the
\* voxel with indices (y, x, z).
Scribbled == {<<input.points3D[n][2], input.points3D[n][1], input.points3D[n][3]>> :
                 n \in 1..Len(input.points3D)}

\* The input of the call is a scribble in one plane, inside the volume.
PlaneScribbleInVolume ==
    /\ output # NotApplied
    /\ output.kind = "distanceMap"
    /\ \E a \in 1..3 : \A i, j \in 1..Len(input.points3D) :
          input.points3D[i][a] = input.points3D[j][a]
    /\ Scribbled \subseteq InputVoxels

\* C21: for the volume of 10 x 64 x 64 voxels and the foreground points
\* (30,30,4), (31,30,4), (30,31,4) the detected view is axial with slice 4,
\* no index is out of bounds, channel 3 gets a prior that is not zero and
\* channel 4 stays zero.
C21_ScenarioWritesPrior ==
    (output # NotApplied /\ input = ScenarioInput) =>
        /\ output.gauss.kind = "tuple"
        /\ output.gauss.viewType = "Axial"
        /\ output.gauss.sliceId = 4
        /\ ~output.gauss.raised
        /\ output.fgd # ZeroChannel
        /\ output.bgd = ZeroChannel

\* exp(-a) >= exp(-b) for two values of the map.
AtLeast(a, b) == a.num * b.den <= b.num * a.den

\* C22: for a scribble in one plane that does not cover the whole volume,
\* every value of the map is exp of a number that is not positive, so lies
\* in [0,1], and the voxels where the map has its maximum are exactly the
\* scribbled voxels.
C22_MapPeaksOnScribble ==
    (PlaneScribbleInVolume /\ Scribbled # InputVoxels) =>
        /\ output.gauss.kind = "tuple"
        /\ ~output.gauss.raised
        /\ DOMAIN output.gauss.map = InputVoxels
        /\ \A v \in InputVoxels :
              /\ output.gauss.map[v].kind = "exp"
              /\ output.gauss.map[v].num >= 0
              /\ output.gauss.map[v].den > 0
        /\ {v \in InputVoxels :
               \A w \in InputVoxels :
                  AtLeast(output.gauss.map[v], output.gauss.map[w])} = Scribbled

\* A map with three different values: the scribble, a nearer and a farther
\* voxel.
C22_Witness ==
    /\ PlaneScribbleInVolume
    /\ Scribbled # InputVoxels
    /\ \E v, w \in InputVoxels \ Scribbled :
          ~AtLeast(output.gauss.map[v], output.gauss.map[w])

\* C28: the distance transform weighs exactly one array axis with
\* zAnisotropy and the other two with 1, and the weighted axis is one on
\* which all scribbled voxels, as stored, share their index: the axis
\* orthogonal to the plane of the scribble.
C28_AnisotropyOnPlaneNormal ==
    (PlaneScribbleInVolume /\ output.gauss.kind = "tuple" /\ ~output.gauss.raised) =>
        \E a \in 1..3 :
            /\ output.gauss.sampling[a] = DISTMAP_Z
            /\ \A b \in (1..3) \ {a} : output.gauss.sampling[b] = 1
            /\ \A v, w \in Scribbled : v[a] = w[a]

\* C29: when the scribble covers every voxel of the volume, so that the
\* largest distance is 0, no map is produced and no channel is written.
C29_EmptyFieldFails ==
    (PlaneScribbleInVolume /\ Scribbled = InputVoxels) =>
        /\ output.gauss.kind = "tuple" => output.gauss.map = None
        /\ output.fgd = ZeroChannel
        /\ output.bgd = ZeroChannel

\* The two array indices of a voxel other than the one on axis ax, in order.
OtherIndices(v, ax) ==
    IF ax = 1 THEN <<v[2], v[3]>> ELSE IF ax = 2 THEN <<v[1], v[3]>> ELSE <<v[1], v[2]>>

\* C30: for every series with distinct instance numbers the instance order
\* is sorted by ascending instance number, and along the slice axis of
\* channel 0 the slice at index i holds the pixel data of the instance at
\* position i of the instance order.
C30_SlicesFollowInstanceOrder ==
    output # NotApplied =>
        /\ output.kind = "tensor"
        /\ \A i, j \in 1..Len(output.dcmList) :
              i < j => output.dcmList[i] < output.dcmList[j]
        /\ \E ax \in 1..3 :
              \A v \in DOMAIN output.channel0 :
                  /\ v[ax] + 1 \in 1..Len(output.dcmList)
                  /\ output.channel0[v] =
                        [kind |-> "pixel", inst |-> output.dcmList[v[ax] + 1],
                         row |-> OtherIndices(v, ax)[1],
                         col |-> OtherIndices(v, ax)[2]]

\* C31: no prepare changes the id of the session's published object, so the
\* next publish of the session, whatever descriptor it is for, starts with
\* the delete of that object.
C31_PrepareKeepsPublishedId ==
    [][\A c \in Clients, p \in CaseNames :
         /\ PrepareStepOn(c, p) =>
               /\ IsSession(SESSIONSGLOBAL', c, p)
               /\ SESSIONSGLOBAL'[c][p].segOrthancID
                     = SESSIONSGLOBAL[c][p].segOrthancID
         /\ (/\ ProcessStepOn(c, p)
             /\ SESSIONSGLOBAL[c][p].segOrthancID # None
             /\ last'.calls # << >>) =>
               /\ last'.calls[1].call = "delete"
               /\ last'.calls[1].id = SESSIONSGLOBAL[c][p].segOrthancID.id]_vars

\* A prepare with another descriptor, its fetch answered, on a session that
\* holds a published object.
C31_Witness ==
    /\ last.op = "prepare"
    /\ last.status = "ok"
    /\ ~last.reused
    /\ CTFetched(last.calls)
    /\ IsSession(SESSIONSGLOBAL, last.c, last.p)
    /\ Sess(<<last.c, last.p>>).segOrthancID # None
    /\ \E o \in archive : o.id = Sess(<<last.c, last.p>>).segOrthancID.id

\* C32: a prepare that fetched stores its descriptor even when the fetch
\* failed; a repeat prepare with the stored descriptor on a session without
\* a tensor answers reused, fetches nothing and leaves the session without
\* a tensor; only a prepare with another descriptor gives it one.
C32_FailedDescriptorIsReused ==
    /\ [](last.op = "prepare" /\ last.status = "ok" /\ ~last.reused
            => Sess(<<last.c, last.p>>).data = last.req)
    /\ [][\A c \in Clients, p \in CaseNames :
            /\ (/\ PrepareStepOn(c, p)
                /\ SESSIONSGLOBAL[c][p].torchData.kind # "tensor"
                /\ SESSIONSGLOBAL[c][p].data = last'.req) =>
                  /\ last'.reused
                  /\ last'.status = "ok"
                  /\ last'.calls = << >>
                  /\ SESSIONSGLOBAL'[c][p] = SESSIONSGLOBAL[c][p]
            /\ (/\ IsSession(SESSIONSGLOBAL, c, p)
                /\ IsSession(SESSIONSGLOBAL', c, p)
                /\ SESSIONSGLOBAL[c][p].torchData.kind # "tensor"
                /\ SESSIONSGLOBAL'[c][p].torchData.kind = "tensor") =>
                  /\ last'.op = "prepare"
                  /\ last'.req # SESSIONSGLOBAL[c][p].data]_vars

\* A repeat of a prepare whose CT fetch had failed: reused, and no tensor.
C32_Witness ==
    /\ last.op = "prepare"
    /\ last.reused
    /\ Sess(<<last.c, last.p>>).torchData.kind = "list"
    /\ Sess(<<last.c, last.p>>).data = last.req

\* C33: a refine turn whose delete (if any) answered 200 or 404 and whose
\* create answered 200 ends with exactly one object of the session in the
\* archive, and the session's published id is the id of that object,
\* whatever publishes failed before.
C33_SuccessfulTurnLeavesOneObject ==
    (/\ last.op = "process"
     /\ AnswersOf(last.calls, "create") = {"200"}
     /\ AnswersOf(last.calls, "delete") \subseteq {"200", "404"})
    => LET k == <<last.c, last.p>>
       IN  /\ Cardinality(ObjectsOf(k)) = 1
           /\ Sess(k).segOrthancID # None
           /\ \A o \in ObjectsOf(k) : o.id = Sess(k).segOrthancID.id

====
